---- MODULE Spec2Model ----
(***************************************************************************)
(* Model of the request-handling pipeline of doubao-translator-rust        *)
(* (src/src/main.rs): the TTL-bounded LRU response cache, the sliding-     *)
(* window rate limiter, the text chunker and the translate handler.        *)
(*                                                                         *)
(* Time (std::time::Instant) is a natural number read from `clock`.        *)
(* Strings are sequences of one-character strings.  The body of a tokio    *)
(* Mutex critical section that holds no .await is one atomic step; every   *)
(* value computed before the lock is awaited (Instant::now() in            *)
(* RateLimiter::allow and in Cache::set) is read in an earlier step.       *)
(***************************************************************************)
EXTENDS Naturals, Integers, Sequences, FiniteSets, TLC

\* ------------------------------------------------------------------ bounds
\* Largest value of the clock.
MaxTime == 3
\* RateLimiter.window (60 s in main), in clock ticks.
Window == 1
\* Config.cache_ttl (CACHE_TTL), in clock ticks.
CacheTtl == 2
\* Config.rate_limit_rpm is drawn from 0..MaxRpm.
MaxRpm == 2
\* Config.cache_max_size is 0 or MaxCacheSize.
MaxCacheSize == 2

\* max_chars of split_text (800 in translate_handler), in characters.
ChunkMaxChars == 2
\* Config.max_text_length (MAX_TEXT_LENGTH), in characters.
MaxTextLength == 3
\* Inputs of split_text: texts of at most SplitMaxLen characters, and
\* max_chars in 1..SplitMaxChars.
SplitMaxLen == 9
SplitMaxChars == 4
\* Inputs of parse_doubao_response: output arrays of at most ParseMaxItems
\* items.
ParseMaxItems == 2
\* Inputs of build_cache_key: source, target and text of at most KeyMaxLen
\* characters.
KeyMaxLen == 2

\* Concurrent callers of the component specifications, and the concurrent
\* requests of the handler.
Tasks == {"t1", "t2"}
\* Keys and values used by the callers of the cache specification.
CacheKeys == {"k1", "k2", "k3"}
\* The text each caller stores.
CacheValue(t) == IF t = "t1" THEN "v1" ELSE "v2"

VARIABLES
    clock,           \* Instant::now()
    rate_limit_rpm,  \* Config.rate_limit_rpm
    cache_max_size,  \* Config.cache_max_size
    hits,            \* RateLimiter.hits: VecDeque<Instant>, front first
    cache,           \* Cache.inner: LruCache, least recently used first
    pc,              \* position of each task
    now,             \* each task's local `now` (allow) / Instant::now() (set)
    call,            \* each task's arguments of the running Cache::set
    last,            \* history: the last completed limiter / cache operation
    admitted,        \* history: admitted[t] = calls admitted with now = t
    recency,         \* history: keys by last use (set, or get returning fresh)
    payload,         \* each request's TranslateRequest
    results,         \* each request's `results` vector
    response,        \* each request's (StatusCode, TranslateResponse)
    req,             \* history of each request: what it has done so far
    completed,       \* history: the last successful translation per request
    s_text,          \* split_text: the text
    s_max,           \* split_text: max_chars
    s_chunks,        \* split_text: the returned chunks, once computed
    p_body,          \* parse_doubao_response: the body
    p_result,        \* parse_doubao_response: the Result, once computed
    k_a,             \* build_cache_key: a request that is translated and stored
    k_b,             \* build_cache_key: a request that then looks the cache up
    k_out            \* build_cache_key: the two keys and the lookup, once computed

configVars == <<rate_limit_rpm, cache_max_size>>
taskVars == <<pc, now, call>>
histVars == <<last, admitted, recency>>
pipeVars == <<payload, results, response, req, completed>>
splitVars == <<s_text, s_max, s_chunks>>
parseVars == <<p_body, p_result>>
keyVars == <<k_a, k_b, k_out>>
vars == <<clock, configVars, hits, cache, taskVars, histVars, pipeVars,
          splitVars, parseVars, keyVars>>

\* ----------------------------------------------------------------- helpers
None == [some |-> FALSE]
Some(x) == [some |-> TRUE, v |-> x]

MaxOf(a, b) == IF a >= b THEN a ELSE b

\* Instant::duration_since saturates to zero when `earlier` is later.
DurationSince(later, earlier) == IF later >= earlier THEN later - earlier ELSE 0

RemoveAt(s, i) == SubSeq(s, 1, i - 1) \o SubSeq(s, i + 1, Len(s))

\* -------------------------------------------------------------- RateLimiter
\* RateLimiter::new: max.max(1).
RateLimiter_max == MaxOf(rate_limit_rpm, 1)

\* The while-let loop of allow: pop the front while it is older than window.
RECURSIVE Prune(_, _)
Prune(h, t) ==
    IF h # <<>> /\ DurationSince(t, Head(h)) > Window
    THEN Prune(Tail(h), t)
    ELSE h

\* The critical section of allow, with `t` the Instant read before the lock.
RateLimiter_allow_NoRecord(h, t) ==
    LET p == Prune(h, t)
    IN  IF Len(p) >= RateLimiter_max
        THEN [hits |-> p, ok |-> FALSE]
        ELSE [hits |-> p, ok |-> TRUE]

RateLimiter_allow(h, t) ==
    LET p == Prune(h, t)
    IN  IF Len(p) >= RateLimiter_max
        THEN [hits |-> p, ok |-> FALSE]
        ELSE [hits |-> Append(p, t), ok |-> TRUE]

\* -------------------------------------------------------------------- Cache
\* Cache::new: NonZeroUsize::new(max_size.max(1)).
Cache_capacity == MaxOf(cache_max_size, 1)

KeysOf(c) == {c[i].key : i \in 1..Len(c)}
IndexOf(c, k) == CHOOSE i \in 1..Len(c) : c[i].key = k
EntryOf(c, k) == c[IndexOf(c, k)]

\* LruCache::get: the entry, promoted to most recently used.
LruGet_NoPromote(c, k) ==
    IF k \in KeysOf(c)
    THEN [cache |-> c, entry |-> Some(EntryOf(c, k))]
    ELSE [cache |-> c, entry |-> None]

LruGet(c, k) ==
    IF k \in KeysOf(c)
    THEN [cache |-> Append(RemoveAt(c, IndexOf(c, k)), EntryOf(c, k)),
          entry |-> Some(EntryOf(c, k))]
    ELSE [cache |-> c, entry |-> None]

\* LruCache::pop: remove the key if present.
LruPop_Front(c, k) == IF k \in KeysOf(c) THEN Tail(c) ELSE c

LruPop(c, k) == IF k \in KeysOf(c) THEN RemoveAt(c, IndexOf(c, k)) ELSE c

\* LruCache::put: overwrite and promote, or insert, evicting the least
\* recently used entry when the cache is full.
LruPut_NoEvict(c, e) ==
    IF e.key \in KeysOf(c)
    THEN Append(RemoveAt(c, IndexOf(c, e.key)), e)
    ELSE Append(c, e)

LruPut(c, e) ==
    IF e.key \in KeysOf(c)
    THEN Append(RemoveAt(c, IndexOf(c, e.key)), e)
    ELSE IF Len(c) >= Cache_capacity
         THEN Append(Tail(c), e)
         ELSE Append(c, e)

\* Cache::get, with `t` the Instant read inside the critical section.
Cache_get_Strict(c, k, t) ==
    LET g == LruGet(c, k)
    IN  IF g.entry.some /\ t < g.entry.v.expires_at
        THEN [cache |-> g.cache, ret |-> Some(g.entry.v.value)]
        ELSE [cache |-> LruPop(g.cache, k), ret |-> None]

Cache_get(c, k, t) ==
    LET g == LruGet(c, k)
    IN  IF g.entry.some /\ t <= g.entry.v.expires_at
        THEN [cache |-> g.cache, ret |-> Some(g.entry.v.value)]
        ELSE [cache |-> LruPop(g.cache, k), ret |-> None]

\* Cache::set: the entry built before the lock, with `t` the Instant read.
CacheEntry(k, v, t) == [key |-> k, value |-> v, expires_at |-> t + CacheTtl]

Cache_set(c, k, v, t) == LruPut(c, CacheEntry(k, v, t))


\* --------------------------------------------------------------------- text
NL == "\n"
Sep == <<NL, NL>>

RECURSIVE Repeat(_, _)
Repeat(ch, n) == IF n = 0 THEN <<>> ELSE <<ch>> \o Repeat(ch, n - 1)

\* [String]::join.
RECURSIVE Join(_, _)
Join(parts, sep) ==
    IF parts = <<>> THEN <<>>
    ELSE IF Len(parts) = 1 THEN parts[1]
    ELSE parts[1] \o sep \o Join(Tail(parts), sep)

IsSpace(ch) == ch \in {" ", NL}

\* str::trim.
RECURSIVE TrimStart(_)
TrimStart(s) == IF s # <<>> /\ IsSpace(Head(s)) THEN TrimStart(Tail(s)) ELSE s
RECURSIVE TrimEnd(_)
TrimEnd(s) ==
    IF s # <<>> /\ IsSpace(s[Len(s)])
    THEN TrimEnd(SubSeq(s, 1, Len(s) - 1))
    ELSE s
Trim(s) == TrimEnd(TrimStart(s))

\* ---------------------------------------------------------------- split_text
\* text.split("\n\n"): cut at each leftmost non-overlapping blank line.
RECURSIVE SplitParagraphs(_)
SplitParagraphs(s) ==
    LET cuts == {i \in 1..(Len(s) - 1) : s[i] = NL /\ s[i + 1] = NL}
    IN  IF cuts = {} THEN <<s>>
        ELSE LET i == CHOOSE c \in cuts : \A d \in cuts : c <= d
             IN  <<SubSeq(s, 1, i - 1)>>
                     \o SplitParagraphs(SubSeq(s, i + 2, Len(s)))

\* The loop of split_by_chars over the remaining characters.
RECURSIVE SplitByCharsLoop(_, _, _, _)
SplitByCharsLoop(text, max_chars, parts, current) ==
    IF text = <<>>
    THEN IF current # <<>> THEN Append(parts, current) ELSE parts
    ELSE LET cur == Append(current, Head(text))
         IN  IF Len(cur) >= max_chars
             THEN SplitByCharsLoop(Tail(text), max_chars,
                                   Append(parts, cur), <<>>)
             ELSE SplitByCharsLoop(Tail(text), max_chars, parts, cur)

split_by_chars_Whole(text, max_chars) == <<text>>

split_by_chars(text, max_chars) == SplitByCharsLoop(text, max_chars, <<>>, <<>>)

\* One iteration of the paragraph loop of split_text.
SplitStep_NoSeparator(st, paragraph, max_chars) ==
    LET para_len == Len(paragraph)
    IN  IF para_len > max_chars
        THEN [chunks |-> (IF st.current # <<>>
                          THEN Append(st.chunks, st.current)
                          ELSE st.chunks) \o split_by_chars(paragraph, max_chars),
              current |-> <<>>,
              current_len |-> IF st.current # <<>> THEN 0 ELSE st.current_len]
        ELSE IF st.current # <<>> /\ st.current_len + para_len > max_chars
        THEN [chunks |-> Append(st.chunks, st.current),
              current |-> paragraph,
              current_len |-> para_len]
        ELSE IF st.current # <<>>
        THEN [chunks |-> st.chunks,
              current |-> st.current \o Sep \o paragraph,
              current_len |-> st.current_len + para_len]
        ELSE [chunks |-> st.chunks,
              current |-> paragraph,
              current_len |-> st.current_len + para_len]

SplitStep(st, paragraph, max_chars) ==
    LET para_len == Len(paragraph)
        extra == IF st.current = <<>> THEN 0 ELSE 2
    IN  IF para_len > max_chars
        THEN [chunks |-> (IF st.current # <<>>
                          THEN Append(st.chunks, st.current)
                          ELSE st.chunks) \o split_by_chars(paragraph, max_chars),
              current |-> <<>>,
              current_len |-> IF st.current # <<>> THEN 0 ELSE st.current_len]
        ELSE IF st.current # <<>> /\ st.current_len + extra + para_len > max_chars
        THEN [chunks |-> Append(st.chunks, st.current),
              current |-> paragraph,
              current_len |-> para_len]
        ELSE IF st.current # <<>>
        THEN [chunks |-> st.chunks,
              current |-> st.current \o Sep \o paragraph,
              current_len |-> st.current_len + 2 + para_len]
        ELSE [chunks |-> st.chunks,
              current |-> paragraph,
              current_len |-> st.current_len + para_len]

RECURSIVE SplitLoop(_, _, _)
SplitLoop(paragraphs, max_chars, st) ==
    IF paragraphs = <<>>
    THEN IF st.current # <<>> THEN Append(st.chunks, st.current) ELSE st.chunks
    ELSE SplitLoop(Tail(paragraphs), max_chars,
                   SplitStep(st, Head(paragraphs), max_chars))

split_text(text, max_chars) ==
    IF Len(text) <= max_chars
    THEN <<text>>
    ELSE SplitLoop(SplitParagraphs(text), max_chars,
                   [chunks |-> <<>>, current |-> <<>>, current_len |-> 0])

\* ------------------------------------------------------ parse_doubao_response
\* A reply body: json says whether serde_json parses it; a field that is
\* missing or of another JSON type than the one read is None.
RECURSIVE FirstOutputText(_)
FirstOutputText(content) ==
    IF content = <<>> THEN None
    ELSE IF Head(content).type = Some("output_text") /\ Head(content).text.some
    THEN Head(content).text
    ELSE FirstOutputText(Tail(content))

RECURSIVE ScanOutput(_)
ScanOutput(output) ==
    IF output = <<>> THEN None
    ELSE LET item == Head(output)
             found == IF item.content.some
                      THEN FirstOutputText(item.content.v)
                      ELSE None
         IN  IF item.type # Some("message") \/ item.role # Some("assistant")
             THEN ScanOutput(Tail(output))
             ELSE IF found.some THEN found ELSE ScanOutput(Tail(output))

Ok(x) == [ok |-> TRUE, v |-> x]
Err(e) == [ok |-> FALSE, err |-> e]

parse_doubao_response(body) ==
    IF ~body.json THEN Err("json")
    ELSE IF body.status = Some("completed")
    THEN LET found == IF body.output.some THEN ScanOutput(body.output.v) ELSE None
         IN  IF found.some THEN Ok(found.v)
             ELSE Err("new format missing output_text")
    ELSE IF /\ body.choices.some
            /\ body.choices.v # <<>>
            /\ body.choices.v[1].message.some
            /\ body.choices.v[1].message.v.content.some
    THEN Ok(body.choices.v[1].message.v.content.v)
    ELSE Err("unknown response format")

\* The replies of the provider to the call for a chunk: a transport error,
\* a body that cannot be read, a non-success status, or one of four bodies.
\* The provider's translation of a chunk is the chunk behind a "T".
OutputText(t) == [type |-> Some("output_text"), text |-> Some(t)]
AssistantMessage(content) ==
    [type |-> Some("message"), role |-> Some("assistant"), content |-> Some(content)]
BodyA(output) ==
    [json |-> TRUE, status |-> Some("completed"), output |-> Some(output),
     choices |-> None]
BodyB(choices) ==
    [json |-> TRUE, status |-> None, output |-> None, choices |-> Some(choices)]
BodyGarbage == [json |-> FALSE, status |-> None, output |-> None, choices |-> None]

Translation(chunk) == <<"T">> \o chunk

Bodies(chunk) ==
    {BodyA(<<AssistantMessage(<<OutputText(Translation(chunk))>>)>>),
     BodyB(<<[message |-> Some([content |-> Some(Translation(chunk))])]>>),
     BodyA(<<>>),
     BodyGarbage}

Replies_Never(chunk) == {}

Replies(chunk) ==
    {[kind |-> "send_err"], [kind |-> "read_err"]}
        \cup {[kind |-> "http", success |-> TRUE, body |-> b] : b \in Bodies(chunk)}
        \cup {[kind |-> "http", success |-> FALSE, body |-> BodyGarbage]}

\* translate_chunk, given what the provider does with the request.
translate_chunk(reply) ==
    IF reply.kind = "send_err" THEN Err("http request failed")
    ELSE IF reply.kind = "read_err" THEN Err("reading the response failed")
    ELSE IF ~reply.success THEN Err("api error")
    ELSE parse_doubao_response(reply.body)

\* ------------------------------------------------------------ build_cache_key
\* md5 of "{source}|{target}|{text}"; the digest is modelled as injective,
\* so the key is the formatted string itself.
build_cache_key(text, source, target) ==
    (IF source.some THEN source.v ELSE <<>>) \o <<"|">> \o target \o <<"|">> \o text

\* ---------------------------------------------------------- translate_handler
Response(status, success, text, cached, error) ==
    [status |-> status, success |-> success, text |-> text, cached |-> cached,
     error |-> error]
NoResponse == [status |-> 0]

\* payload.source.as_deref().filter(|s| !s.is_empty())
SourceOf(p) == IF p.source.some /\ p.source.v # <<>> THEN p.source ELSE None

CacheKeyOf(p) == build_cache_key(p.text, SourceOf(p), p.target)
ChunksOf(p) == split_text(p.text, ChunkMaxChars)

\* The three validation checks, in the order of the handler.
Validate_TargetFirst(p) ==
    IF Trim(p.target) = <<>> THEN "empty_target"
    ELSE IF Len(p.text) = 0 THEN "empty_text"
    ELSE IF Len(p.text) > MaxTextLength THEN "too_long"
    ELSE "ok"

Validate(p) ==
    IF Len(p.text) = 0 THEN "empty_text"
    ELSE IF Len(p.text) > MaxTextLength THEN "too_long"
    ELSE IF Trim(p.target) = <<>> THEN "empty_target"
    ELSE "ok"

\* What the handler does with the result of limiter.allow().
AfterAllow_ValidateFirst(p, allowed) ==
    IF Validate(p) # "ok"
    THEN [done |-> TRUE,
          response |-> Response(400, FALSE, None, None, Some(Validate(p)))]
    ELSE IF ~allowed
    THEN [done |-> TRUE,
          response |-> Response(429, FALSE, None, None, Some("rate_limited"))]
    ELSE [done |-> FALSE]

AfterAllow(p, allowed) ==
    IF ~allowed
    THEN [done |-> TRUE,
          response |-> Response(429, FALSE, None, None, Some("rate_limited"))]
    ELSE IF Validate(p) # "ok"
    THEN [done |-> TRUE,
          response |-> Response(400, FALSE, None, None, Some(Validate(p)))]
    ELSE [done |-> FALSE]

\* What the handler does with the result of cache.get().
AfterLookup_IgnoreHit(ret) == [done |-> FALSE]

AfterLookup(ret) ==
    IF ret.some
    THEN [done |-> TRUE,
          response |-> Response(200, TRUE, Some(ret.v), Some(TRUE), None)]
    ELSE [done |-> FALSE]

\* What the handler does with the result of one translate_chunk().
AfterChunk_SkipFailed(res, rs) ==
    [done |-> FALSE, results |-> IF res.ok THEN Append(rs, res.v) ELSE rs]

AfterChunk_Prepend(res, rs) ==
    IF res.ok
    THEN [done |-> FALSE, results |-> <<res.v>> \o rs]
    ELSE [done |-> TRUE,
          response |-> Response(500, FALSE, None, None, Some("translation_failed"))]

AfterChunk(res, rs) ==
    IF res.ok
    THEN [done |-> FALSE, results |-> Append(rs, res.v)]
    ELSE [done |-> TRUE,
          response |-> Response(500, FALSE, None, None, Some("translation_failed"))]

\* ------------------------------------------------------------------ history
Touch(r, k) == Append(SelectSeq(r, LAMBDA x : x # k), k)

\* The stored key whose last use is the oldest.
LruKey(r, c) ==
    r[CHOOSE i \in 1..Len(r) :
          /\ r[i] \in KeysOf(c)
          /\ \A j \in 1..(i - 1) : r[j] \notin KeysOf(c)]

\* What a put of key k into c, performed at time t, evicts.
Eviction(r, c, k, t) ==
    IF k \notin KeysOf(c) /\ Len(c) >= Cache_capacity
    THEN LET e == EntryOf(c, LruKey(r, c))
         IN  [evicted |-> TRUE,
              fresh |-> t <= e.expires_at,
              reordered |-> \E i \in 1..Len(c) :
                               /\ c[i].key # e.key
                               /\ c[i].expires_at < e.expires_at]
    ELSE [evicted |-> FALSE, fresh |-> FALSE, reordered |-> FALSE]

NoOp == [op |-> "none"]
NoCall == [key |-> "", value |-> ""]

\* ---------------------------------------------------------------- the clock
Tick ==
    /\ clock < MaxTime
    /\ clock' = clock + 1
    /\ UNCHANGED <<configVars, hits, cache, taskVars, histVars,
                 pipeVars, splitVars, parseVars, keyVars>>

\* --------------------------------------------- callers of RateLimiter::allow
\* let now = Instant::now();  then self.hits.lock().await suspends.
AllowEnter(t) ==
    /\ pc[t] = "idle"
    /\ pc' = [pc EXCEPT ![t] = "allow_lock"]
    /\ now' = [now EXCEPT ![t] = clock]
    /\ UNCHANGED <<clock, configVars, hits, cache, call, histVars,
                 pipeVars, splitVars, parseVars, keyVars>>

\* The lock is held: prune, check, record.
AllowLocked(t) ==
    LET r == RateLimiter_allow(hits, now[t])
    IN  /\ pc[t] = "allow_lock"
        /\ hits' = r.hits
        /\ pc' = [pc EXCEPT ![t] = "idle"]
        /\ last' = [op |-> "allow", now |-> now[t], before |-> hits,
                    ret |-> r.ok]
        /\ admitted' = IF r.ok
                       THEN [admitted EXCEPT ![now[t]] = @ + 1]
                       ELSE admitted
        /\ now' = [now EXCEPT ![t] = 0]
        /\ UNCHANGED <<clock, configVars, cache, call, recency,
                 pipeVars, splitVars, parseVars, keyVars>>

\* ------------------------------------------ callers of Cache::get / set
\* Cache::get: lock, LruCache::get, Instant::now(), pop when stale.
CacheGetCall(t, k) ==
    LET r == Cache_get(cache, k, clock)
    IN  /\ pc[t] = "idle"
        /\ cache' = r.cache
        /\ last' = [op |-> "get", key |-> k, ret |-> r.ret,
                    stale |-> k \in KeysOf(cache) /\ ~r.ret.some]
        /\ recency' = IF r.ret.some THEN Touch(recency, k) ELSE recency
        /\ UNCHANGED <<clock, configVars, hits, taskVars, admitted,
                 pipeVars, splitVars, parseVars, keyVars>>

\* Cache::set builds the entry (Instant::now() + ttl), then awaits the lock.
CacheSetEnter(t, k) ==
    /\ pc[t] = "idle"
    /\ pc' = [pc EXCEPT ![t] = "set_lock"]
    /\ now' = [now EXCEPT ![t] = clock]
    /\ call' = [call EXCEPT ![t] = [key |-> k, value |-> CacheValue(t)]]
    /\ UNCHANGED <<clock, configVars, hits, cache, histVars,
                 pipeVars, splitVars, parseVars, keyVars>>

\* The lock is held: LruCache::put.
CacheSetLocked(t) ==
    /\ pc[t] = "set_lock"
    /\ cache' = Cache_set(cache, call[t].key, call[t].value, now[t])
    /\ pc' = [pc EXCEPT ![t] = "idle"]
    /\ last' = [op |-> "set", key |-> call[t].key,
                ev |-> Eviction(recency, cache, call[t].key, clock)]
    /\ recency' = Touch(recency, call[t].key)
    /\ now' = [now EXCEPT ![t] = 0]
    /\ call' = [call EXCEPT ![t] = NoCall]
    /\ UNCHANGED <<clock, configVars, hits, admitted,
                 pipeVars, splitVars, parseVars, keyVars>>


\* --------------------------------------------------- translate_handler steps
\* The requests the handler is given.
TextA == <<"a">>
TextLong == Repeat("a", ChunkMaxChars + 1)
TextTooLong == Repeat("a", MaxTextLength + 1)

Payloads ==
    {[text |-> <<>>, source |-> None, target |-> <<>>],
     [text |-> TextTooLong, source |-> None, target |-> <<>>],
     [text |-> TextA, source |-> None, target |-> <<" ">>],
     [text |-> TextA, source |-> Some(<<>>), target |-> <<"e">>],
     [text |-> TextLong, source |-> None, target |-> <<"e">>]}

\* The (source, target, text) a request is for.
Ident(p) == [source |-> SourceOf(p), target |-> p.target, text |-> p.text]
Idents == {Ident(p) : p \in Payloads}

NoPayload == [text |-> <<>>, source |-> None, target |-> <<>>]
NoReq ==
    [allowed |-> FALSE, calls |-> 0, gets |-> 0, sets |-> 0, failed |-> 0,
     repeat |-> None, lookup |-> None]

\* The text of the last successful translation of p's (source, target,
\* text), when its entry's TTL has not elapsed at time t.
RepeatOf(p, t) ==
    LET c == completed[Ident(p)]
    IN  IF c.some /\ t <= c.v.expires_at THEN Some(c.v.text) ELSE None

\* The text of that translation, when its entry is still in store c and
\* t is no later than its expiresAt.
StoredOf(p, c, t) ==
    LET d == completed[Ident(p)]
        k == CacheKeyOf(p)
    IN  IF /\ d.some
           /\ k \in KeysOf(c)
           /\ EntryOf(c, k) = [key |-> k, value |-> d.v.text,
                               expires_at |-> d.v.expires_at]
           /\ t <= d.v.expires_at
        THEN Some(d.v.text)
        ELSE None

\* The chunk whose provider call is in flight.
CurrentChunk(r) ==
    IF pc[r] = "h_await" THEN ChunksOf(payload[r])[req[r].calls] ELSE <<>>

\* A request arrives; allow() reads Instant::now() and awaits the lock.
Receive(r, p) ==
    /\ pc[r] \in {"idle", "done"}
    /\ pc' = [pc EXCEPT ![r] = "h_allow"]
    /\ payload' = [payload EXCEPT ![r] = p]
    /\ now' = [now EXCEPT ![r] = clock]
    /\ response' = [response EXCEPT ![r] = NoResponse]
    /\ req' = [req EXCEPT ![r] = NoReq]
    /\ UNCHANGED <<clock, configVars, hits, cache, call, histVars, results,
                   completed, splitVars, parseVars, keyVars>>

\* The handler of request r returns resp; h is what the request has done.
Return(r, resp, h) ==
    /\ response' = [response EXCEPT ![r] = resp]
    /\ pc' = [pc EXCEPT ![r] = "done"]
    /\ results' = [results EXCEPT ![r] = <<>>]
    /\ req' = [req EXCEPT ![r] = h]
    /\ now' = [now EXCEPT ![r] = 0]
    /\ UNCHANGED payload

\* The limiter lock is held: allow() decides; the handler answers 429, or
\* validates and answers 400, or goes on to await the cache lock.
HandlerAllow(r) ==
    LET a == RateLimiter_allow(hits, now[r])
        nxt == AfterAllow(payload[r], a.ok)
        h == [req[r] EXCEPT !.allowed = a.ok]
    IN  /\ pc[r] = "h_allow"
        /\ hits' = a.hits
        /\ IF nxt.done
           THEN Return(r, nxt.response, h)
           ELSE /\ pc' = [pc EXCEPT ![r] = "h_get"]
                /\ now' = [now EXCEPT ![r] = 0]
                /\ req' = [req EXCEPT ![r] = h]
                /\ UNCHANGED <<payload, results, response>>
        /\ UNCHANGED <<clock, configVars, cache, call, histVars, completed,
                       splitVars, parseVars, keyVars>>

\* The cache lock is held: Cache::get; on a hit the handler answers, on a
\* miss it splits the text and sends the first chunk to the provider (or,
\* with no chunk at all, builds the entry of Cache::set).
HandlerGet(r) ==
    LET p == payload[r]
        g == Cache_get(cache, CacheKeyOf(p), clock)
        nxt == AfterLookup(g.ret)
        h == [req[r] EXCEPT !.gets = @ + 1,
                            !.repeat = RepeatOf(p, clock),
                            !.lookup = StoredOf(p, cache, clock)]
    IN  /\ pc[r] = "h_get"
        /\ cache' = g.cache
        /\ IF nxt.done
           THEN Return(r, nxt.response, h)
           ELSE IF ChunksOf(p) = <<>>
           THEN /\ pc' = [pc EXCEPT ![r] = "h_set_lock"]
                /\ now' = [now EXCEPT ![r] = clock]
                /\ req' = [req EXCEPT ![r] = h]
                /\ UNCHANGED <<payload, results, response>>
           ELSE /\ pc' = [pc EXCEPT ![r] = "h_await"]
                /\ req' = [req EXCEPT ![r] = [h EXCEPT !.calls = 1]]
                /\ UNCHANGED <<now, payload, results, response>>
        /\ UNCHANGED <<clock, configVars, hits, call, histVars, completed,
                       splitVars, parseVars, keyVars>>

\* The provider call of the current chunk returns: on an error the handler
\* answers 500; otherwise it pushes the text and sends the next chunk, or,
\* after the last one, joins the results and builds the entry of Cache::set.
HandlerReply(r, reply) ==
    LET res == translate_chunk(reply)
        nxt == AfterChunk(res, results[r])
        h == IF ~res.ok /\ req[r].failed = 0
             THEN [req[r] EXCEPT !.failed = req[r].calls]
             ELSE req[r]
    IN  /\ pc[r] = "h_await"
        /\ IF nxt.done
           THEN Return(r, nxt.response, h)
           ELSE IF req[r].calls >= Len(ChunksOf(payload[r]))
           THEN /\ pc' = [pc EXCEPT ![r] = "h_set_lock"]
                /\ results' = [results EXCEPT ![r] = nxt.results]
                /\ now' = [now EXCEPT ![r] = clock]
                /\ req' = [req EXCEPT ![r] = h]
                /\ UNCHANGED <<payload, response>>
           ELSE /\ results' = [results EXCEPT ![r] = nxt.results]
                /\ req' = [req EXCEPT ![r] = [h EXCEPT !.calls = @ + 1]]
                /\ UNCHANGED <<pc, now, payload, response>>
        /\ UNCHANGED <<clock, configVars, hits, cache, call, histVars,
                       completed, splitVars, parseVars, keyVars>>

\* The cache lock is held: Cache::set stores the joined text; the handler
\* answers 200.
HandlerSetLocked(r) ==
    LET p == payload[r]
        final_text == Join(results[r], <<NL>>)
    IN  /\ pc[r] = "h_set_lock"
        /\ cache' = Cache_set(cache, CacheKeyOf(p), final_text, now[r])
        /\ Return(r, Response(200, TRUE, Some(final_text), Some(FALSE), None),
                  [req[r] EXCEPT !.sets = @ + 1])
        /\ completed' = [completed EXCEPT ![Ident(p)] =
               Some([text |-> final_text, expires_at |-> now[r] + CacheTtl])]
        /\ UNCHANGED <<clock, configVars, hits, call, histVars, splitVars, parseVars, keyVars>>

\* ------------------------------------------------------ split_text, applied
SplitInputs ==
    UNION {[1..n -> {"a", NL}] : n \in 0..SplitMaxLen}

SplitCall ==
    /\ ~s_chunks.some
    /\ s_chunks' = Some(split_text(s_text, s_max))
    /\ UNCHANGED <<clock, configVars, hits, cache, taskVars, histVars,
                   pipeVars, s_text, s_max, parseVars, keyVars>>

\* ------------------------------------------- parse_doubao_response, applied
\* Items of the output array: assistant messages whose content holds an
\* output_text, nothing, an output_text without a text before one with a
\* text, or another entry before an output_text; an assistant message
\* without content; a user message; an item that is not a message.
ParseItems ==
    {AssistantMessage(<<OutputText(<<"x">>)>>),
     AssistantMessage(<<>>),
     AssistantMessage(<<[type |-> Some("output_text"), text |-> None],
                        OutputText(<<"y">>)>>),
     AssistantMessage(<<[type |-> Some("reasoning"), text |-> Some(<<"r">>)],
                        OutputText(<<"z">>)>>),
     [type |-> Some("message"), role |-> Some("assistant"), content |-> None],
     [type |-> Some("message"), role |-> Some("user"),
      content |-> Some(<<OutputText(<<"u">>)>>)],
     [type |-> Some("reasoning"), role |-> None, content |-> None]}

ParseOutputs ==
    {None} \cup {Some(o) : o \in UNION {[1..n -> ParseItems] : n \in 0..ParseMaxItems}}

ParseChoices ==
    {None, Some(<<>>), Some(<<[message |-> None]>>),
     Some(<<[message |-> Some([content |-> None])]>>),
     Some(<<[message |-> Some([content |-> Some(<<"c">>)])]>>)}

ParseInputs ==
    {BodyGarbage} \cup
    {[json |-> TRUE, status |-> st, output |-> o, choices |-> c] :
        st \in {Some("completed"), Some("failed"), None},
        o \in ParseOutputs, c \in ParseChoices}

ParseCall ==
    /\ ~p_result.some
    /\ p_result' = Some(parse_doubao_response(p_body))
    /\ UNCHANGED <<clock, configVars, hits, cache, taskVars, histVars,
                   pipeVars, splitVars, p_body, keyVars>>

\* ------------------------------------------------- build_cache_key, applied
RECURSIVE KeyStrings(_)
KeyStrings(n) ==
    IF n = 0 THEN {<<>>}
    ELSE KeyStrings(n - 1) \cup
         {Append(w, ch) : w \in KeyStrings(n - 1), ch \in {"a", "|"}}

\* The requests that reach build_cache_key: those that pass validation.
KeyInputs ==
    {p \in {[text |-> x, source |-> src, target |-> tgt] :
                x \in KeyStrings(KeyMaxLen),
                src \in {None} \cup {Some(w) : w \in KeyStrings(KeyMaxLen)},
                tgt \in KeyStrings(KeyMaxLen)} :
        Validate(p) = "ok"}

\* The keys the handler builds for k_a and k_b, and what the lookup of
\* k_b's key returns from a cache that holds the translation of k_a.
KeyCall ==
    LET ka == CacheKeyOf(k_a)
        kb == CacheKeyOf(k_b)
        stored == LruPut(<<>>, CacheEntry(ka, Translation(k_a.text), clock))
    IN  /\ ~k_out.some
        /\ k_out' = Some([a |-> ka, b |-> kb,
                          ret |-> Cache_get(stored, kb, clock).ret])
        /\ UNCHANGED <<clock, configVars, hits, cache, taskVars, histVars,
                       pipeVars, splitVars, parseVars, k_a, k_b>>

\* ------------------------------------------------------------ initial state
InitState ==
    /\ clock = 0
    /\ hits = <<>>
    /\ cache = <<>>
    /\ pc = [t \in Tasks |-> "idle"]
    /\ now = [t \in Tasks |-> 0]
    /\ call = [t \in Tasks |-> NoCall]
    /\ last = NoOp
    /\ admitted = [t \in 0..MaxTime |-> 0]
    /\ recency = <<>>
    /\ payload = [t \in Tasks |-> NoPayload]
    /\ results = [t \in Tasks |-> <<>>]
    /\ response = [t \in Tasks |-> NoResponse]
    /\ req = [t \in Tasks |-> NoReq]
    /\ completed = [i \in Idents |-> None]

NoSplit ==
    /\ s_text = <<>>
    /\ s_max = 1
    /\ s_chunks = None

NoParse ==
    /\ p_body = BodyGarbage
    /\ p_result = None

NoKey ==
    /\ k_a = NoPayload
    /\ k_b = NoPayload
    /\ k_out = None

\* Concurrent callers of RateLimiter::allow.
InitLimiter ==
    /\ InitState
    /\ NoSplit
    /\ NoParse
    /\ NoKey
    /\ rate_limit_rpm \in 0..MaxRpm
    /\ cache_max_size = 0

NextLimiter ==
    \/ Tick
    \/ \E t \in Tasks : AllowEnter(t)
    \/ \E t \in Tasks : AllowLocked(t)

SpecLimiter == InitLimiter /\ [][NextLimiter]_vars

\* Concurrent callers of Cache::get and Cache::set.
InitCache ==
    /\ InitState
    /\ NoSplit
    /\ NoParse
    /\ NoKey
    /\ rate_limit_rpm = 0
    /\ cache_max_size \in {0, MaxCacheSize}

NextCache ==
    \/ Tick
    \/ \E t \in Tasks, k \in CacheKeys : CacheGetCall(t, k)
    \/ \E t \in Tasks, k \in CacheKeys : CacheSetEnter(t, k)
    \/ \E t \in Tasks : CacheSetLocked(t)

SpecCache == InitCache /\ [][NextCache]_vars

\* split_text applied to every text and max_chars within the bounds.
InitSplit ==
    /\ InitState
    /\ rate_limit_rpm = 0
    /\ cache_max_size = 0
    /\ s_text \in SplitInputs
    /\ s_max \in 1..SplitMaxChars
    /\ s_chunks = None
    /\ NoParse
    /\ NoKey

NextSplit == SplitCall

SpecSplit == InitSplit /\ [][NextSplit]_vars

\* parse_doubao_response applied to every body within the bounds.
InitParse ==
    /\ InitState
    /\ NoSplit
    /\ NoKey
    /\ rate_limit_rpm = 0
    /\ cache_max_size = 0
    /\ p_body \in ParseInputs
    /\ p_result = None

NextParse == ParseCall

SpecParse == InitParse /\ [][NextParse]_vars

\* build_cache_key applied to every two requests within the bounds.
InitKey ==
    /\ InitState
    /\ NoSplit
    /\ NoParse
    /\ rate_limit_rpm = 0
    /\ cache_max_size = 0
    /\ k_a \in KeyInputs
    /\ k_b \in KeyInputs
    /\ k_out = None

NextKey == KeyCall

SpecKey == InitKey /\ [][NextKey]_vars

\* Concurrent requests handled by translate_handler.
Init ==
    /\ InitState
    /\ NoSplit
    /\ NoParse
    /\ NoKey
    /\ rate_limit_rpm \in {1, MaxRpm}
    /\ cache_max_size \in {0, MaxCacheSize}

Next ==
    \/ Tick
    \/ \E r \in Tasks, p \in Payloads : Receive(r, p)
    \/ \E r \in Tasks : HandlerAllow(r)
    \/ \E r \in Tasks : HandlerGet(r)
    \/ \E r \in Tasks : \E reply \in Replies(CurrentChunk(r)) :
           HandlerReply(r, reply)
    \/ \E r \in Tasks : HandlerSetLocked(r)

Spec == Init /\ [][Next]_vars

\* The same requests, when every provider call returns (the awaited
\* send/text futures resolve) and the tokio Mutexes, which are fair, grant
\* the lock to every waiter.
Fairness ==
    \A r \in Tasks :
        /\ WF_vars(HandlerAllow(r))
        /\ WF_vars(HandlerGet(r))
        /\ WF_vars(\E reply \in Replies(CurrentChunk(r)) : HandlerReply(r, reply))
        /\ WF_vars(HandlerSetLocked(r))

InitLive ==
    /\ InitState
    /\ NoSplit
    /\ NoParse
    /\ NoKey
    /\ rate_limit_rpm = 1
    /\ cache_max_size = 0

SpecLive == InitLive /\ [][Next]_vars /\ Fairness

\* ==================================================================== claims
\* ---------------------------------------------------------------------- C1
\* C1: in every reachable state the cache store holds at most N entries,
\* all of distinct keys, where N is the configured capacity and a configured
\* capacity of 0 behaves as 1.
C1_CapacityBound ==
    /\ Len(cache) <= (IF cache_max_size = 0 THEN 1 ELSE cache_max_size)
    /\ Cardinality(KeysOf(cache)) = Len(cache)

\* A set into a full store of configured capacity 0 has just evicted.
C1_Witness ==
    /\ cache_max_size = 0
    /\ Len(cache) = 1
    /\ last.op = "set"
    /\ last.ev.evicted

\* ---------------------------------------------------------------------- C2
\* C2: a set of a key that is not present into a store holding N entries
\* evicts exactly one entry, the one whose last use (a set of its key, or a
\* get that returned it fresh) is the oldest; every other entry stays as it
\* was.
C2_EvictsLru ==
    [][\A t \in Tasks :
          (/\ CacheSetLocked(t)
           /\ call[t].key \notin KeysOf(cache)
           /\ Len(cache) = Cache_capacity)
          => LET victim == LruKey(recency, cache)
             IN  /\ KeysOf(cache') =
                        (KeysOf(cache) \ {victim}) \cup {call[t].key}
                 /\ Len(cache') = Len(cache)
                 /\ \A k \in KeysOf(cache) \ {victim} :
                        EntryOf(cache', k) = EntryOf(cache, k)]_vars

\* A set has just evicted an unexpired entry that was stored later than an
\* entry that stays: the survivor was used since.
C2_Witness ==
    /\ last.op = "set"
    /\ last.ev.evicted
    /\ last.ev.fresh
    /\ last.ev.reordered
    /\ Len(cache) = 2

\* ---------------------------------------------------------------------- C3
\* C3: a set that read the time t stores its text with expiresAt = t + ttl;
\* the entry stays as stored until it is overwritten or removed; a get of a
\* stored key at time now returns the stored text when now <= expiresAt and
\* absent when now > expiresAt, and then the key is no longer in the store.
C3_TtlRead ==
    [][/\ \A t \in Tasks :
            CacheSetLocked(t) =>
                /\ call[t].key \in KeysOf(cache')
                /\ EntryOf(cache', call[t].key) =
                       [key |-> call[t].key, value |-> call[t].value,
                        expires_at |-> now[t] + CacheTtl]
       /\ \A k \in KeysOf(cache) \cap KeysOf(cache') :
            EntryOf(cache', k) # EntryOf(cache, k) =>
                \E t \in Tasks : CacheSetLocked(t) /\ call[t].key = k
       /\ \A t \in Tasks, k \in KeysOf(cache) :
            CacheGetCall(t, k) =>
                LET e == EntryOf(cache, k)
                IN  /\ clock <= e.expires_at =>
                           /\ last'.ret = Some(e.value)
                           /\ k \in KeysOf(cache')
                           /\ EntryOf(cache', k) = e
                    /\ clock > e.expires_at =>
                           /\ last'.ret = None
                           /\ k \notin KeysOf(cache')]_vars

\* A get has just found its key expired, returned absent and removed it.
C3_Witness ==
    /\ last.op = "get"
    /\ last.stale
    /\ ~last.ret.some
    /\ last.key \notin KeysOf(cache)

\* ---------------------------------------------------------------------- C4
RECURSIVE AdmittedIn(_, _)
AdmittedIn(a, b) ==
    IF a > b \/ a > MaxTime THEN 0 ELSE admitted[a] + AdmittedIn(a + 1, b)

\* C4: the record never holds more than max timestamps, and in any time
\* interval of length W at most max calls are admitted (a call counted at
\* the time it uses as now).
C4_WindowBound ==
    /\ Len(hits) <= RateLimiter_max
    /\ \A a \in 0..MaxTime : AdmittedIn(a, a + Window) <= RateLimiter_max

\* ---------------------------------------------------------------------- C5
IsSuffix(s, b) == \E i \in 0..Len(b) : s = SubSeq(b, i + 1, Len(b))
Oldest(h) == CHOOSE x \in {h[i] : i \in 1..Len(h)} :
                 \A i \in 1..Len(h) : x <= h[i]

\* C5: a denied call records nothing; with max admissions recorded, a call
\* inside the window is denied; a call made more than W after the oldest
\* recorded admission is admitted.
C5_DenyThenRecover ==
    last.op = "allow" =>
        /\ ~last.ret => IsSuffix(hits, last.before)
        /\ (/\ Len(last.before) = RateLimiter_max
            /\ \A i \in 1..Len(last.before) :
                   DurationSince(last.now, last.before[i]) <= Window)
           => ~last.ret
        /\ (/\ last.before # <<>>
            /\ last.now > Oldest(last.before) + Window)
           => last.ret

\* ---------------------------------------------------------------------- C6
Rejected(status, error) == Response(status, FALSE, None, None, Some(error))
Untouched(h) == h.gets = 0 /\ h.sets = 0 /\ h.calls = 0

\* C6: the limiter check is the first step of every request: while it is
\* pending the request has done nothing else, and a request denied by
\* allow() ends with 429 and success = false, valid or not, without a
\* validation error, a cache get or set, or a provider call; no other
\* request ends with 429.
C6_DeniedIs429 ==
    \A r \in Tasks :
        /\ pc[r] = "h_allow" => Untouched(req[r]) /\ response[r] = NoResponse
        /\ pc[r] = "done" /\ ~req[r].allowed =>
               /\ response[r] = Rejected(429, "rate_limited")
               /\ Untouched(req[r])
        /\ pc[r] = "done" /\ response[r].status = 429 => ~req[r].allowed

\* A request with an empty text was denied and answered 429.
C6_Witness ==
    \E r \in Tasks :
        /\ pc[r] = "done"
        /\ ~req[r].allowed
        /\ payload[r].text = <<>>
        /\ response[r].status = 429

\* ---------------------------------------------------------------------- C7
Blank(s) == \A i \in 1..Len(s) : IsSpace(s[i])

\* C7: an admitted request is validated before the cache lookup, in the
\* order empty text, text longer than max_text_length, target empty after
\* trimming; the first violated check decides the 400 error, a rejected
\* request does no cache get or set and no provider call, and a request
\* that passes the three checks is not answered 400.
C7_ValidationOrder ==
    \A r \in Tasks :
        pc[r] = "done" /\ req[r].allowed =>
            LET p == payload[r]
                n == Len(p.text)
            IN  /\ n = 0 => response[r] = Rejected(400, "empty_text")
                /\ n > MaxTextLength => response[r] = Rejected(400, "too_long")
                /\ n > 0 /\ n <= MaxTextLength /\ Blank(p.target) =>
                       response[r] = Rejected(400, "empty_target")
                /\ n = 0 \/ n > MaxTextLength \/ Blank(p.target) =>
                       Untouched(req[r])
                /\ n > 0 /\ n <= MaxTextLength /\ ~Blank(p.target) =>
                       response[r].status # 400

\* An admitted request with an empty text and an empty target got the
\* empty-text error.
C7_Witness ==
    \E r \in Tasks :
        /\ pc[r] = "done"
        /\ req[r].allowed
        /\ payload[r].text = <<>>
        /\ payload[r].target = <<>>
        /\ response[r] = Rejected(400, "empty_text")

\* ---------------------------------------------------------------------- C8
\* C8: when the provider call or the parse of chunk k fails, the request
\* ends with 500, success = false and no text, has issued no provider call
\* for a chunk after k, and has done no Cache::set.
C8_FailureAborts ==
    \A r \in Tasks :
        pc[r] = "done" /\ req[r].failed > 0 =>
            /\ response[r] = Rejected(500, "translation_failed")
            /\ req[r].calls = req[r].failed
            /\ req[r].sets = 0

\* The first of two chunks failed: the second was never sent.
C8_Witness ==
    \E r \in Tasks :
        /\ pc[r] = "done"
        /\ req[r].failed = 1
        /\ Len(ChunksOf(payload[r])) = 2
        /\ response[r].status = 500

\* ---------------------------------------------------------------------- C9
Cached(text) == Response(200, TRUE, Some(text), Some(TRUE), None)

\* C9 as stated: an admitted request that arrives after a request for the
\* same (source, target, text) has completed successfully, and before that
\* entry's TTL has elapsed, returns the stored text with cached = true and
\* issues no provider call.  The request is taken to arrive when it looks
\* the cache up.
C9_RepeatCached ==
    \A r \in Tasks :
        pc[r] = "done" /\ req[r].allowed /\ req[r].repeat.some =>
            /\ response[r] = Cached(req[r].repeat.v)
            /\ req[r].calls = 0

\* C9 amended: an admitted request whose cache lookup finds the entry of a
\* completed request for the same (source, target, text) still in the store,
\* at a time no later than its expiresAt, returns the stored text with
\* cached = true and issues no provider call and no Cache::set.
C9_RepeatCachedIfStored ==
    \A r \in Tasks :
        pc[r] = "done" /\ req[r].allowed /\ req[r].lookup.some =>
            /\ response[r] = Cached(req[r].lookup.v)
            /\ req[r].calls = 0
            /\ req[r].sets = 0

\* A request that arrived after an identical one completed was answered
\* from the cache.
C9_Witness ==
    \E r \in Tasks :
        /\ pc[r] = "done"
        /\ req[r].repeat.some
        /\ req[r].lookup.some
        /\ response[r].cached = Some(TRUE)

\* --------------------------------------------------------------------- C10
\* C10: split_text returns <<text>> for a text of at most max_chars
\* characters; for a longer text whose "\n\n"-separated paragraphs (empty
\* ones included) are each at most max_chars long, the chunks joined with
\* "\n\n" are the text.
C10_RoundTrip ==
    s_chunks.some =>
        /\ Len(s_text) <= s_max => s_chunks.v = <<s_text>>
        /\ (/\ Len(s_text) > s_max
            /\ \A i \in 1..Len(SplitParagraphs(s_text)) :
                   Len(SplitParagraphs(s_text)[i]) <= s_max)
           => Join(s_chunks.v, Sep) = s_text

\* --------------------------------------------------------------------- C11
\* C11: for a non-empty text, every chunk split_text returns is non-empty
\* and has at most max_chars characters, the "\n\n" separators packed inside
\* a chunk included.
C11_ChunkLength ==
    s_chunks.some /\ s_text # <<>> =>
        \A i \in 1..Len(s_chunks.v) :
            Len(s_chunks.v[i]) >= 1 /\ Len(s_chunks.v[i]) <= s_max

HasPacked(chunk) ==
    \E i \in 2..(Len(chunk) - 2) :
        /\ chunk[i] = NL /\ chunk[i + 1] = NL
        /\ chunk[i - 1] # NL /\ chunk[i + 2] # NL

\* A text longer than max_chars gave several chunks, one of them two
\* paragraphs packed around a separator and exactly max_chars long.
C11_Witness ==
    /\ s_chunks.some
    /\ Len(s_text) > s_max
    /\ Len(s_chunks.v) >= 2
    /\ \E i \in 1..Len(s_chunks.v) :
           HasPacked(s_chunks.v[i]) /\ Len(s_chunks.v[i]) = s_max

\* --------------------------------------------------------------------- C12
\* The pieces of a paragraph cut every max_chars characters.
Pieces(paragraph, max_chars) ==
    LET n == (Len(paragraph) + max_chars - 1) \div max_chars
    IN  [k \in 1..n |->
            SubSeq(paragraph, (k - 1) * max_chars + 1,
                   IF k * max_chars <= Len(paragraph)
                   THEN k * max_chars ELSE Len(paragraph))]

\* What the paragraph loop makes of a run of paragraphs on its own.
Packed(paragraphs, max_chars) ==
    SplitLoop(paragraphs, max_chars,
              [chunks |-> <<>>, current |-> <<>>, current_len |-> 0])

\* C12: a paragraph longer than max_chars comes out as ceil(L / max_chars)
\* consecutive chunks, all max_chars long but possibly the last, whose
\* concatenation is the paragraph; what the paragraphs before it give comes
\* first, whole, and what the paragraphs after it give comes after, so the
\* pieces are merged with neither.
C12_LongParagraph ==
    s_chunks.some =>
        LET ps == SplitParagraphs(s_text)
        IN  \A i \in 1..Len(ps) :
                Len(ps[i]) > s_max =>
                    /\ Len(Pieces(ps[i], s_max)) * s_max >= Len(ps[i])
                    /\ (Len(Pieces(ps[i], s_max)) - 1) * s_max < Len(ps[i])
                    /\ s_chunks.v =
                           Packed(SubSeq(ps, 1, i - 1), s_max)
                               \o Pieces(ps[i], s_max)
                               \o Packed(SubSeq(ps, i + 1, Len(ps)), s_max)

\* A paragraph longer than max_chars, of a length that max_chars does not
\* divide, stood between two non-empty shorter paragraphs.
C12_Witness ==
    /\ s_chunks.some
    /\ LET ps == SplitParagraphs(s_text)
       IN  \E i \in 2..(Len(ps) - 1) :
               /\ Len(ps[i]) > s_max
               /\ Len(ps[i]) % s_max # 0
               /\ ps[i - 1] # <<>> /\ Len(ps[i - 1]) <= s_max
               /\ ps[i + 1] # <<>> /\ Len(ps[i + 1]) <= s_max

\* --------------------------------------------------------------------- C13
\* The provider's translations of the chunks of a request, in chunk order.
Translations(p) ==
    [i \in 1..Len(ChunksOf(p)) |-> Translation(ChunksOf(p)[i])]

\* C13: while the provider call for chunk i of a request is in flight, the
\* calls for chunks 1..i-1 have all returned successfully and their texts
\* are the results so far, in chunk order; the request that stores its
\* result has called the provider once per chunk, and the text it returns
\* with cached = false, which is the value it stores under its cache key,
\* is the translations of chunks 1..n in order joined by one "\n"; whatever
\* the other requests do.
C13_SequentialInOrder ==
    [][\A r \in Tasks :
          /\ pc'[r] = "h_await" =>
                 /\ req'[r].failed = 0
                 /\ req'[r].calls = Len(results'[r]) + 1
                 /\ req'[r].calls <= Len(ChunksOf(payload'[r]))
                 /\ results'[r] = SubSeq(Translations(payload'[r]), 1,
                                         req'[r].calls - 1)
          /\ HandlerSetLocked(r) =>
                 LET p == payload[r]
                     joined == Join(Translations(p), <<NL>>)
                 IN  /\ req[r].calls = Len(ChunksOf(p))
                     /\ response'[r] =
                            Response(200, TRUE, Some(joined), Some(FALSE), None)
                     /\ CacheKeyOf(p) \in KeysOf(cache')
                     /\ EntryOf(cache', CacheKeyOf(p)).value = joined
          /\ (/\ pc[r] # "done" /\ pc'[r] = "done"
              /\ response'[r].status = 200
              /\ response'[r].cached = Some(FALSE))
             => HandlerSetLocked(r)]_vars

\* A request of two chunks was answered with both translations while the
\* other request had a provider call in flight.
C13_Witness ==
    \E r \in Tasks, o \in Tasks :
        /\ r # o
        /\ pc[r] = "done"
        /\ Len(ChunksOf(payload[r])) = 2
        /\ response[r].status = 200
        /\ response[r].cached = Some(FALSE)
        /\ response[r].text = Some(Join(Translations(payload[r]), <<NL>>))
        /\ pc[o] = "h_await"

\* --------------------------------------------------------------------- C14
RECURSIVE FirstAssistant(_)
FirstAssistant(output) ==
    IF output = <<>> THEN None
    ELSE IF Head(output).type = Some("message")
            /\ Head(output).role = Some("assistant")
    THEN Some(Head(output))
    ELSE FirstAssistant(Tail(output))

RECURSIVE FirstOfType(_)
FirstOfType(content) ==
    IF content = <<>> THEN None
    ELSE IF Head(content).type = Some("output_text") /\ Head(content).text.some
    THEN Some(Head(content))
    ELSE FirstOfType(Tail(content))

\* The text the path of Schema A resolves to: the first output_text entry
\* that carries a text, in the content of the first assistant message of
\* the output array.
PathA(body) ==
    LET item == IF body.output.some THEN FirstAssistant(body.output.v) ELSE None
        entry == IF item.some /\ item.v.content.some
                 THEN FirstOfType(item.v.content.v)
                 ELSE None
    IN  IF entry.some THEN entry.v.text ELSE None

\* C14: on a document whose status is "completed" the result is the text
\* of the first output_text entry of the content of the first output item
\* that is an assistant message; when that path does not resolve the parse
\* fails, whatever choices[0].message.content and the later output items
\* hold.
C14_SchemaAFirstItem ==
    p_result.some /\ p_body.json /\ p_body.status = Some("completed") =>
        IF PathA(p_body).some
        THEN p_result.v = Ok(PathA(p_body).v)
        ELSE ~p_result.v.ok

\* --------------------------------------------------------------------- C15
\* C15: the cache key is the same for two requests of the same
\* (source-or-empty, target, text), and two requests that differ in source,
\* target or text get different keys, so that the second is not answered
\* from the entry of the first.
C15_KeySeparates ==
    k_out.some =>
        /\ Ident(k_a) = Ident(k_b) => k_out.v.a = k_out.v.b
        /\ Ident(k_a) # Ident(k_b) =>
               k_out.v.a # k_out.v.b /\ ~k_out.v.ret.some

\* --------------------------------------------------------------------- C16
\* C16: in every reachable state the recorded timestamps are in
\* non-decreasing order from the front to the back of the record.
C16_RecordSorted ==
    \A i \in 1..(Len(hits) - 1) : hits[i] <= hits[i + 1]

\* --------------------------------------------------------------------- C17
\* C17: when allow() decides, after its pruning step, no timestamp left in
\* the record is older than now - W, with now the time the call uses.
C17_PrunedWithinWindow ==
    last.op = "allow" =>
        LET left == Prune(last.before, last.now)
        IN  \A i \in 1..Len(left) : last.now - left[i] <= Window

\* --------------------------------------------------------------------- C18
\* C18: a get that finds its key absent or expired returns absent and
\* leaves the store as it was but for that key: every other entry stays,
\* in the same least-recently-used order.
C18_StaleGetFrame ==
    [][\A t \in Tasks, k \in CacheKeys :
          (/\ CacheGetCall(t, k)
           /\ \/ k \notin KeysOf(cache)
              \/ clock > EntryOf(cache, k).expires_at)
          => /\ last'.ret = None
             /\ cache' = SelectSeq(cache, LAMBDA e : e.key # k)]_vars

\* A get has just found its key expired and removed it; the store had
\* another entry, which stays.
C18_Witness ==
    /\ last.op = "get"
    /\ last.stale
    /\ Len(cache) = 1
    /\ cache[1].key # last.key

\* --------------------------------------------------------------------- C19
\* The five terminal outcomes of a request.
Terminal(resp) ==
    \/ resp = Rejected(429, "rate_limited")
    \/ \E e \in {"empty_text", "too_long", "empty_target"} :
           resp = Rejected(400, e)
    \/ resp = Rejected(500, "translation_failed")
    \/ /\ resp.status = 200 /\ resp.success /\ resp.text.some
       /\ resp.cached \in {Some(TRUE), Some(FALSE)} /\ resp.error = None

\* C19: when every provider call returns and the locks are granted fairly,
\* every request that has arrived eventually ends with one of the five
\* terminal outcomes, whatever the other requests do.
C19_EveryRequestEnds ==
    \A r \in Tasks :
        (pc[r] \in {"h_allow", "h_get", "h_await", "h_set_lock"})
            ~> (pc[r] = "done" /\ Terminal(response[r]))

\* One request has ended with 200 and the other with 429.
C19_Witness ==
    \E r \in Tasks, o \in Tasks :
        /\ pc[r] = "done" /\ response[r].status = 200
        /\ pc[o] = "done" /\ response[o].status = 429

\* --------------------------------------------------------------------- C20
\* C20: the allow() of a request removes from the record only timestamps
\* older than the window, from the front, and adds exactly one timestamp,
\* its now, when it returns true and none when it returns false; no other
\* step of any request changes the record, so the slot stays consumed
\* whether the request ends with 400, 200 or 500; a request ends with 429
\* exactly when its allow() returned false.
C20_SlotPerAdmission ==
    [][/\ \A r \in Tasks :
            HandlerAllow(r) =>
                \E n \in 0..Len(hits) :
                    /\ \A i \in 1..n : clock - hits[i] > Window
                    /\ hits' = SubSeq(hits, n + 1, Len(hits)) \o
                                (IF req'[r].allowed THEN <<now[r]>> ELSE <<>>)
       /\ hits' # hits => \E r \in Tasks : HandlerAllow(r)
       /\ \A r \in Tasks :
            pc[r] # "done" /\ pc'[r] = "done" =>
                (response'[r].status = 429 <=> ~req'[r].allowed)]_vars

\* One admitted request was served from the cache and another failed at
\* the provider; the record holds the timestamps of both.
C20_Witness ==
    \E r \in Tasks, o \in Tasks :
        /\ pc[r] = "done" /\ req[r].allowed
        /\ response[r].cached = Some(TRUE)
        /\ pc[o] = "done" /\ req[o].allowed
        /\ response[o].status = 500
        /\ Len(hits) = 2

====
